---- MODULE Spec2Model ----
(***************************************************************************)
(* The Action Center handshake of useActionContext, the SDK module it      *)
(* talks to, and the ActionPage that consumes the hook: its gated fetch    *)
(* effects, its remarks field and its outcome buttons.                     *)
(*                                                                         *)
(* One step of the model is one event-loop task: a handler runs to its end *)
(* and React re-renders the page and runs the effects whose dependencies   *)
(* changed before the next task starts.                                    *)
(***************************************************************************)
EXTENDS Integers, Sequences, FiniteSets, TLC

----------------------------------------------------------------------------
(* Bounds of the model *)

\* how many times the mount effects run (2 = StrictMode's double invocation)
MaxMountRuns == 2
\* how many SDK clients initializeSdk creates in a behaviour
MaxClients == 2
\* longest text typed into the remarks field
MaxRemarkLen == 1

----------------------------------------------------------------------------
(* JavaScript values.  A string is a sequence of symbols; " " is the       *)
(* whitespace symbol, "." the dot, and every other symbol a run of         *)
(* characters that no string operation of the program cuts.               *)

Undefined == [kind |-> "undefined", num |-> 0, str |-> <<>>]
Null == [kind |-> "null", num |-> 0, str |-> <<>>]
Num(n) == [kind |-> "number", num |-> n, str |-> <<>>]
Str(s) == [kind |-> "string", num |-> 0, str |-> s]
Bool(b) == [kind |-> "boolean", num |-> IF b THEN 1 ELSE 0, str |-> <<>>]

\* ToBoolean: what `if (v)`, `!v` and `v && ...` test
Truthy(v) ==
    CASE v.kind = "undefined" -> FALSE
      [] v.kind = "null" -> FALSE
      [] v.kind = "number" -> v.num # 0
      [] v.kind = "string" -> v.str # <<>>
      [] v.kind = "boolean" -> v.num = 1

\* a ?? b
Nullish(a, b) == IF a.kind \in {"undefined", "null"} THEN b ELSE a

\* String(v)
String(v) ==
    CASE v.kind = "string" -> v.str
      [] v.kind = "undefined" -> <<"undefined">>
      [] v.kind = "null" -> <<"null">>
      [] v.kind = "number" -> <<"#">>
      [] v.kind = "boolean" -> IF v.num = 1 THEN <<"true">> ELSE <<"false">>

RECURSIVE TrimStart(_)
TrimStart(s) == IF s # <<>> /\ Head(s) = " " THEN TrimStart(Tail(s)) ELSE s

RECURSIVE TrimEnd(_)
TrimEnd(s) ==
    IF s # <<>> /\ s[Len(s)] = " " THEN TrimEnd(SubSeq(s, 1, Len(s) - 1)) ELSE s

\* String.prototype.trim
Trim(s) == TrimEnd(TrimStart(s))

----------------------------------------------------------------------------
(* Form data *)

Keys == {"bucketId", "folderId", "path1", "path2", "path3", "entityName", "remarks"}
PathKeys == {"path1", "path2", "path3"}
InputKeys == Keys \ {"remarks"}

\* the placeholder shown in preview mode; a key an object lacks reads undefined
INITIAL_DATA ==
    [bucketId |-> Num(123456),
     folderId |-> Num(789012),
     path1 |-> Str(<<"/documents/sample1", ".", "pdf">>),
     path2 |-> Str(<<"/documents/sample2", ".", "jpg">>),
     path3 |-> Str(<<"/documents/sample3", ".", "txt">>),
     entityName |-> Str(<<"SampleEntity">>),
     remarks |-> Undefined]

\* task payloads the host can send
HostInvoice ==
    [bucketId |-> Num(1),
     folderId |-> Num(2),
     path1 |-> Str(<<"/in/invoice", ".", "pdf">>),
     path2 |-> Str(<<"/in/scan">>),
     path3 |-> Undefined,
     entityName |-> Str(<<"Invoice">>),
     remarks |-> Undefined]

HostReviewed ==
    [bucketId |-> Num(1),
     folderId |-> Num(2),
     path1 |-> Str(<<"/in/invoice", ".", "pdf">>),
     path2 |-> Undefined,
     path3 |-> Undefined,
     entityName |-> Str(<<"Vendor">>),
     remarks |-> Str(<<"a">>)]

HostDatas == {HostInvoice, HostReviewed}

\* the task of HostReviewed after its document was replaced by a photo
HostMoved ==
    [HostReviewed EXCEPT !.path1 = Str(<<"/in/photo", ".", "jpg">>)]

\* { ...prev, [fieldName]: value }
SetField(prev, fieldName, value) == [prev EXCEPT ![fieldName] = value]

\* { ...prev, ...data }
Spread(prev, data) ==
    [k \in Keys |-> IF k \in DOMAIN data THEN data[k] ELSE prev[k]]

----------------------------------------------------------------------------
(* Messages of the host: ActionCenterData, the fields the hook reads *)

Present == Str(<<"set">>)
Token1 == Str(<<"token1">>)
Token2 == Str(<<"token2">>)
EnvSecret == Str(<<>>)
Light == Str(<<"light">>)
Dark == Str(<<"dark">>)

\* the message that opens a task: credentials (the token possibly empty),
\* the task payload, theme and language
LoadApp(data, readOnly, token) ==
    [data |-> data, isReadOnly |-> Bool(readOnly),
     baseUrl |-> Present, orgName |-> Present, tenantName |-> Present,
     token |-> token, newToken |-> Undefined,
     theme |-> Dark, newTheme |-> Undefined,
     language |-> Str(<<"fr">>), newLanguage |-> Undefined]

\* a message that carries none of the optional fields
Bare ==
    [data |-> Undefined, isReadOnly |-> Undefined,
     baseUrl |-> Undefined, orgName |-> Undefined, tenantName |-> Undefined,
     token |-> Undefined, newToken |-> Undefined,
     theme |-> Undefined, newTheme |-> Undefined,
     language |-> Undefined, newLanguage |-> Undefined]

TokenRefresh == [Bare EXCEPT !.newToken = Token2]
PreferencesChange ==
    [Bare EXCEPT !.newTheme = Light, !.newLanguage = Str(<<"en">>)]

Messages ==
    {LoadApp(d, FALSE, Token1) : d \in HostDatas}
    \cup {LoadApp(HostReviewed, TRUE, Token1)}
    \cup {LoadApp(HostInvoice, FALSE, Str(<<>>))}
    \cup {[LoadApp(HostInvoice, FALSE, Token1) EXCEPT !.newToken = Token2]}
    \cup {TokenRefresh, PreferencesChange}

----------------------------------------------------------------------------
VARIABLES
    \* useActionContext: React state
    taskData, formData, theme, language, hasActionCenterData,
    \* useActionContext: refs
    initialDataRef, isInitializedRef,
    \* the formData captured by the memoized completeTask callback
    completeTaskFormData,
    \* lib/uipath: the module's client (by number), its secret, the flag
    uipathClient, clientSecret, sdkInitialized,
    \* what the host has received: the handshake calls in order, the
    \* dataChanged and completeTask calls of the last step, and whether a
    \* completeTask has been sent
    handshake, sent, completed,
    \* ActionPage: runs of the mount effects, the dependencies the fetch
    \* effects last ran with, the requests issued to the two services
    mountRuns, docDeps, entDeps, bucketCalls, entityCalls,
    \* useBucketFile: React state, the calls in flight, and what the call
    \* that settled in the last step returned
    fileInfo, fileContent, loading, error, calls, settled,
    \* ActionPage: the state of the three documents, the object URLs created
    \* and revoked, the URLs the registered cleanup holds, whether the page
    \* has been unmounted
    docs, createdUrls, revokedUrls, cleanupUrls, unmounted,
    \* useEntityRecords: its state and the requests in flight
    records, entityLoading, entityError, entityInFlight,
    \* a function or component taken alone: its arguments or props, what it
    \* returned or rendered, the calls of onFieldChange it has made
    props, rendered, fieldChanges,
    \* PDFViewer: the file prop, the component's state, and the file the
    \* <Document> it renders is loading
    file, numPages, pageNumber, pdfLoading, pdfError, pdfPending,
    \* the operation that acted last
    lastOp

hookVars == <<taskData, formData, theme, language, hasActionCenterData,
              initialDataRef, isInitializedRef>>
sdkVars == <<uipathClient, clientSecret, sdkInitialized>>
hostVars == <<handshake, sent, completed>>
pageVars == <<completeTaskFormData, mountRuns, docDeps, entDeps, bucketCalls,
              entityCalls>>
bucketFileVars == <<fileInfo, fileContent, loading, error, calls, settled>>
docVars == <<docs, createdUrls, revokedUrls, cleanupUrls, unmounted>>
entityVars == <<records, entityLoading, entityError, entityInFlight>>
fnVars == <<props, rendered, fieldChanges>>
pdfVars == <<file, numPages, pageNumber, pdfLoading, pdfError, pdfPending>>
widgetVars == <<bucketFileVars, docVars, entityVars, fnVars, pdfVars>>
vars == <<hookVars, sdkVars, hostVars, pageVars, widgetVars, lastOp>>

Op(op, arg) == [op |-> op, arg |-> arg]

\* useState<DocumentInfo>({ url: null, contentType: 'unknown', ... })
NoDocument ==
    [url |-> Null, contentType |-> "unknown", loading |-> FALSE, error |-> Null]

\* a state setter: React drops the update of an unmounted component
SetState(current, value) == IF unmounted THEN current ELSE value

\* no function or component is taken alone
NoProps == [fn |-> "none"]
NotRendered == [fn |-> "none"]

\* no call settled in the last step
NoCall == [fn |-> "none", doc |-> "none", rejected |-> FALSE, value |-> Undefined]

----------------------------------------------------------------------------
(* src/lib/uipath *)

\* getUiPathClient(): the module's current client
getUiPathClient == uipathClient

\* initializeSdk(config)
initializeSdk(config) ==
    /\ uipathClient' = uipathClient + 1
    /\ sdkInitialized' = TRUE

----------------------------------------------------------------------------
(* useActionContext *)

\* return { ..., isReadOnly: taskData?.isReadOnly ?? false, ... }
\* taskData?.isReadOnly ?? true
isReadOnlyUnlessTold ==
    IF taskData = Null THEN TRUE
    ELSE Truthy(Nullish(taskData.isReadOnly, Bool(TRUE)))

isReadOnly ==
    IF taskData = Null THEN FALSE
    ELSE Truthy(Nullish(taskData.isReadOnly, Bool(FALSE)))

\* if (data.baseUrl && data.orgName && data.tenantName && data.token)
HasCredentials(data) ==
    /\ Truthy(data.baseUrl)
    /\ Truthy(data.orgName)
    /\ Truthy(data.tenantName)
    /\ Truthy(data.token)

\* if (data.data)
HasData(data) == data.data # Undefined

\* the theme after a message: newTheme, else theme, else unchanged
NextTheme(data) ==
    IF Truthy(data.newTheme) THEN data.newTheme
    ELSE IF Truthy(data.theme) THEN data.theme
    ELSE theme

NextLanguage(data) ==
    IF Truthy(data.newLanguage) THEN data.newLanguage
    ELSE IF Truthy(data.language) THEN data.language
    ELSE language

\* the secret of the current client after a message: initializeSdk builds a
\* client with data.token, updateToken then sets newToken on the current one
\* updateToken before initializeSdk: the new client takes the token field
NextSecretTokenLast(data) ==
    IF HasCredentials(data) THEN data.token
    ELSE IF Truthy(data.newToken) THEN data.newToken
    ELSE clientSecret

NextSecret(data) ==
    IF Truthy(data.newToken) THEN data.newToken
    ELSE IF HasCredentials(data) THEN data.token
    ELSE clientSecret

\* const handleActionCenterMessage = useCallback((data) => { ... }, [])
handleActionCenterMessage(data) ==
    /\ taskData' = data
    /\ hasActionCenterData' = TRUE
    /\ IF HasCredentials(data)
         THEN initializeSdk(data)
         ELSE UNCHANGED <<uipathClient, sdkInitialized>>
    /\ clientSecret' = NextSecret(data)
    /\ theme' = NextTheme(data)
    /\ language' = NextLanguage(data)
    /\ IF HasData(data)
         THEN /\ formData' = data.data
              /\ initialDataRef' = data.data
         ELSE UNCHANGED <<formData, initialDataRef>>

\* the guard left out: every run of the effect goes through
AlreadyInitializedNoGuard(ref) == FALSE

\* if (isInitializedRef.current) return;
AlreadyInitialized(ref) == ref

Register(client) == [call |-> "getTaskDetailsFromActionCenter", client |-> client]
Ready(client) == [call |-> "initializeInActionCenter", client |-> client]

\* the calls of the mount effect that reach the host: a throw of the first
\* call skips the second, the catch block swallows either
MountCalls(client, registerThrows, readyThrows) ==
    IF registerThrows THEN <<>>
    ELSE IF readyThrows THEN <<Register(client)>>
    ELSE <<Register(client), Ready(client)>>

\* the ref set only after both calls went through
mountEffectMarksSuccess(registerThrows, readyThrows) ==
    IF AlreadyInitialized(isInitializedRef)
      THEN UNCHANGED <<isInitializedRef, handshake>>
      ELSE /\ isInitializedRef' = ~(registerThrows \/ readyThrows)
           /\ handshake' = handshake \o
                MountCalls(getUiPathClient, registerThrows, readyThrows)

\* useEffect(() => { ... }, [handleActionCenterMessage])
mountEffect(registerThrows, readyThrows) ==
    IF AlreadyInitialized(isInitializedRef)
      THEN UNCHANGED <<isInitializedRef, handshake>>
      ELSE /\ isInitializedRef' = TRUE
           /\ handshake' = handshake \o
                MountCalls(getUiPathClient, registerThrows, readyThrows)

\* only the changed keys are passed on
ChangedKeysOnly(updated, changes) == changes

\* the payload updateField and updateFormData pass to dataChanged
ChangedPayload(updated, changes) == updated

\* sdk.taskEvents.dataChanged(payload)
dataChanged(payload) ==
    /\ sent' = <<[call |-> "dataChanged", outcome |-> "", data |-> payload,
                  client |-> getUiPathClient]>>
    /\ UNCHANGED completed

\* const updateField = useCallback((fieldName, value) => { ... }, [])
updateField(fieldName, value) ==
    LET updated == SetField(formData, fieldName, value) IN
    /\ formData' = updated
    /\ dataChanged(ChangedPayload(updated, [k \in {fieldName} |-> value]))

\* const updateFormData = useCallback((data) => { ... }, [])
updateFormData(data) ==
    LET updated == Spread(formData, data) IN
    /\ formData' = updated
    /\ dataChanged(ChangedPayload(updated, data))

\* an empty dependency list: the callback of the first render is kept
MemoizedFormDataNoDeps(held, fd) == held

\* the formData the completeTask callback holds after a render with formData
\* fd: useCallback(..., [formData]) makes a new callback when formData changed
MemoizedFormData(held, fd) == fd

\* const completeTask = useCallback((outcome) => { ... }, [formData])
completeTask(outcome) ==
    /\ sent' = <<[call |-> "completeTask", outcome |-> outcome,
                  data |-> completeTaskFormData, client |-> getUiPathClient]>>
    /\ completed' = TRUE

\* the form left as it is, the baseline sent
resetFormKeepsEdits ==
    /\ formData' = formData
    /\ dataChanged(initialDataRef)

\* const resetForm = useCallback(() => { ... }, [])
resetForm ==
    /\ formData' = initialDataRef
    /\ dataChanged(initialDataRef)

----------------------------------------------------------------------------
(* ActionPage *)

\* the dependency list of the document effect
DocDeps(flag, fd) ==
    <<flag, fd.bucketId, fd.folderId, fd.path1, fd.path2, fd.path3>>

\* the dependency list of the entity effect
EntDeps(flag, fd) == <<flag, fd.entityName>>

\* the readiness flag left out of the early return
ShouldFetchDocumentsUngated(flag, fd) ==
    ~(~Truthy(fd.bucketId) \/ ~Truthy(fd.folderId))

\* the document effect goes on past its early return
ShouldFetchDocuments(flag, fd) ==
    ~(~flag \/ ~Truthy(fd.bucketId) \/ ~Truthy(fd.folderId))

\* the requests one run of the document effect issues: one per truthy path
DocumentFetches(flag, fd) ==
    IF ShouldFetchDocuments(flag, fd)
      THEN {[doc |-> p, bucketId |-> fd.bucketId, folderId |-> fd.folderId,
             path |-> fd[p], expiryInMinutes |-> 60] :
               p \in {q \in PathKeys : Truthy(fd[q])}}
      ELSE {}

\* the entity effect goes on past its early return
ShouldFetchEntity(flag, fd) == ~(~flag \/ ~Truthy(fd.entityName))

\* the request one run of the entity effect issues
EntityFetches(flag, fd) ==
    IF ShouldFetchEntity(flag, fd)
      THEN {[entityName |-> fd.entityName, pageSize |-> 50, expansionLevel |-> 1]}
      ELSE {}

\* the trim left out
isFormValidNoTrim(fd) ==
    Truthy(fd.remarks) /\ Len(String(fd.remarks)) > 0

\* const isFormValid = formData.remarks && String(formData.remarks).trim().length > 0
isFormValid(fd) ==
    Truthy(fd.remarks) /\ Len(Trim(String(fd.remarks))) > 0

\* the remarks field takes input: <Input disabled={readOnly} />
RemarksEnabled(readOnly) == ~readOnly

\* the buttons rendered whatever isReadOnly is
OutcomesRenderedAlways(readOnly) == TRUE

\* the outcome buttons are on the page: {!isReadOnly && ( ... )}
OutcomesRendered(readOnly) == ~readOnly

\* an outcome button takes a click: <Button disabled={disabled}>
OutcomeEnabled(fd) == ~(~isFormValid(fd))

\* the text the remarks input shows: value={String(value ?? '')}
RemarksShown(fd) == String(Nullish(fd.remarks, Str(<<>>)))

\* The render that follows a handler, and the effects after it.  mounting:
\* every effect runs; otherwise an effect runs when its dependencies changed.
Render(mounting) ==
    /\ completeTaskFormData' = MemoizedFormData(completeTaskFormData, formData')
    /\ docDeps' = DocDeps(hasActionCenterData', formData')
    /\ entDeps' = EntDeps(hasActionCenterData', formData')
    /\ bucketCalls' = bucketCalls \cup
         (IF mounting \/ docDeps' # docDeps
            THEN DocumentFetches(hasActionCenterData', formData') ELSE {})
    /\ entityCalls' = entityCalls \cup
         (IF mounting \/ entDeps' # entDeps
            THEN EntityFetches(hasActionCenterData', formData') ELSE {})

----------------------------------------------------------------------------
(* Inputs *)

Symbols == {" ", "a"}
Texts == UNION {[1..n -> Symbols] : n \in 0..MaxRemarkLen}
Outcomes == {"Approve", "Reject"}
Partials ==
    {[k \in {"remarks"} |-> Str(<<" ">>)],
     [k \in {"remarks", "entityName"} |->
        IF k = "remarks" THEN Str(<<"a">>) ELSE Str(<<"Vendor">>)]}

Mounted == mountRuns > 0
Registered ==
    \E i \in 1..Len(handshake) :
        handshake[i].call = "getTaskDetailsFromActionCenter"

----------------------------------------------------------------------------
(* Steps *)

Idle ==
    /\ taskData = Null
    /\ formData = INITIAL_DATA
    /\ theme = Light
    /\ language = Str(<<"en">>)
    /\ hasActionCenterData = FALSE
    /\ initialDataRef = INITIAL_DATA
    /\ isInitializedRef = FALSE
    /\ completeTaskFormData = INITIAL_DATA
    /\ uipathClient = 0
    /\ clientSecret = EnvSecret
    /\ sdkInitialized = FALSE
    /\ handshake = <<>>
    /\ sent = <<>>
    /\ completed = FALSE
    /\ mountRuns = 0
    /\ docDeps = DocDeps(FALSE, INITIAL_DATA)
    /\ entDeps = EntDeps(FALSE, INITIAL_DATA)
    /\ bucketCalls = {}
    /\ entityCalls = {}
    /\ fileInfo = Null
    /\ fileContent = Null
    /\ loading = FALSE
    /\ error = Null
    /\ calls = {}
    /\ settled = NoCall
    /\ docs = [p \in PathKeys |-> NoDocument]
    /\ createdUrls = {}
    /\ revokedUrls = {}
    /\ cleanupUrls = {}
    /\ unmounted = FALSE
    /\ records = <<>>
    /\ entityLoading = FALSE
    /\ entityError = Null
    /\ entityInFlight = {}
    /\ file = Null
    /\ numPages = 0
    /\ pageNumber = 1
    /\ pdfLoading = TRUE
    /\ pdfError = Null
    /\ pdfPending = Null
    /\ lastOp = Op("render", Undefined)

\* the page before its first effect runs
Init ==
    /\ Idle
    /\ props = NoProps
    /\ rendered = NotRendered
    /\ fieldChanges = {}

\* The effects run after the first commit; StrictMode runs them once more
\* before anything else happens.
Mount ==
    /\ mountRuns < MaxMountRuns
    /\ mountRuns > 0 => lastOp.op = "mount"
    /\ \E registerThrows \in BOOLEAN, readyThrows \in BOOLEAN :
         mountEffect(registerThrows, readyThrows)
    /\ mountRuns' = mountRuns + 1
    /\ UNCHANGED <<taskData, formData, theme, language, hasActionCenterData,
                   initialDataRef, sdkVars, completed>>
    /\ sent' = <<>>
    /\ Render(TRUE)
    /\ UNCHANGED widgetVars
    /\ lastOp' = Op("mount", Undefined)

\* The registered callback handles a message of the host, and the page
\* renders.
HandleMessage(messages) ==
    /\ Registered
    /\ \E data \in messages :
         /\ HasCredentials(data) => uipathClient < MaxClients
         /\ handleActionCenterMessage(data)
    /\ UNCHANGED <<isInitializedRef, handshake, completed, mountRuns>>
    /\ sent' = <<>>
    /\ Render(FALSE)

\* The host posts a message; the requests the effects issue are followed
\* no further than bucketCalls and entityCalls.
HostMessage ==
    /\ HandleMessage(Messages)
    /\ UNCHANGED widgetVars
    /\ lastOp' = Op("message", Undefined)

\* The user edits the remarks field.
TypeRemarks ==
    /\ Mounted
    /\ RemarksEnabled(isReadOnly)
    /\ \E text \in Texts :
         /\ text # RemarksShown(formData)
         /\ updateField("remarks", Str(text))
    /\ UNCHANGED <<taskData, theme, language, hasActionCenterData,
                   initialDataRef, isInitializedRef, sdkVars, handshake,
                   mountRuns>>
    /\ Render(FALSE)
    /\ UNCHANGED widgetVars
    /\ lastOp' = Op("type", Undefined)

\* The user clicks an outcome button.
ClickOutcome ==
    /\ Mounted
    /\ OutcomesRendered(isReadOnly)
    /\ OutcomeEnabled(formData)
    /\ \E outcome \in Outcomes :
         /\ completeTask(outcome)
         /\ lastOp' = Op("click", outcome)
    /\ UNCHANGED <<hookVars, sdkVars, handshake, mountRuns>>
    /\ Render(FALSE)
    /\ UNCHANGED widgetVars

Next == Mount \/ HostMessage \/ TypeRemarks \/ ClickOutcome

Spec == Init /\ [][Next]_vars

\* A component calls the functions the hook returns directly.
CallUpdateFormData ==
    /\ Mounted
    /\ \E data \in Partials : updateFormData(data)
    /\ UNCHANGED <<taskData, theme, language, hasActionCenterData,
                   initialDataRef, isInitializedRef, sdkVars, handshake,
                   mountRuns>>
    /\ Render(FALSE)
    /\ UNCHANGED widgetVars
    /\ lastOp' = Op("updateFormData", Undefined)

CallResetForm ==
    /\ Mounted
    /\ resetForm
    /\ UNCHANGED <<taskData, theme, language, hasActionCenterData,
                   initialDataRef, isInitializedRef, sdkVars, handshake,
                   mountRuns>>
    /\ Render(FALSE)
    /\ UNCHANGED widgetVars
    /\ lastOp' = Op("resetForm", Undefined)

CallCompleteTask ==
    /\ Mounted
    /\ \E outcome \in Outcomes :
         /\ completeTask(outcome)
         /\ lastOp' = Op("completeTask", outcome)
    /\ UNCHANGED <<hookVars, sdkVars, handshake, mountRuns>>
    /\ Render(FALSE)
    /\ UNCHANGED widgetVars

NextHook == Next \/ CallUpdateFormData \/ CallResetForm \/ CallCompleteTask

SpecHook == Init /\ [][NextHook]_vars

----------------------------------------------------------------------------
(* lib/formatters *)

\* String.prototype.toLowerCase, symbol by symbol
Lower(symbol) ==
    CASE symbol = "PDF" -> "pdf"
      [] symbol = "JPG" -> "jpg"
      [] symbol = "TXT" -> "txt"
      [] symbol = "Comment" -> "comment"
      [] symbol = "Note" -> "note"
      [] symbol = "Reason" -> "reason"
      [] symbol = "Message" -> "message"
      [] OTHER -> symbol

ToLowerCase(s) == [i \in 1..Len(s) |-> Lower(s[i])]

\* path.split('.').pop(): what follows the last dot, the whole path when it
\* has none
LastSegment(path) ==
    LET dots == {i \in 1..Len(path) : path[i] = "."}
        last == IF dots = {} THEN 0
                ELSE CHOOSE i \in dots : \A j \in dots : j <= i
    IN  SubSeq(path, last + 1, Len(path))

\* mimeType.startsWith(prefix), the prefix one symbol
StartsWith(s, prefix) == s # <<>> /\ Head(s) = prefix

ImageExts == {<<e>> : e \in {"jpg", "jpeg", "png", "gif", "webp", "svg", "bmp"}}
TextExts == {<<e>> : e \in {"txt", "md", "json", "xml", "csv", "log"}}

\* the type the extension of the path stands for
TypeOfExtension(path) ==
    LET extension == ToLowerCase(LastSegment(path))
    IN  IF extension \in ImageExts THEN "image"
        ELSE IF extension = <<"pdf">> THEN "pdf"
        ELSE IF extension \in TextExts THEN "text"
        ELSE "unknown"

\* getContentType(path, mimeType)
getContentType(path, mimeType) ==
    IF mimeType # <<>> /\ StartsWith(mimeType, "image/") THEN "image"
    ELSE IF mimeType # <<>> /\ mimeType = <<"application/pdf">> THEN "pdf"
    ELSE IF mimeType # <<>> /\ StartsWith(mimeType, "text/") THEN "text"
    ELSE TypeOfExtension(path)

----------------------------------------------------------------------------
(* useBucketFile *)

\* how many calls of the hook are in flight at once
MaxCalls == 2

\* what an awaited service throws: an Error, or any other value
ThrownError(message) == [isError |-> TRUE, message |-> Str(message)]
ThrownValue == [isError |-> FALSE, message |-> Undefined]
Throwables ==
    {ThrownError(<<>>), ThrownValue}

\* a MIME type is a sequence of symbols: a prefix up to the slash, then the
\* subtype; "application/pdf" is one symbol, as the code tests it whole
Pdf == <<"application/pdf">>
OctetStream == <<"application/octet-stream">>
BlobTypes == {Pdf, <<>>}

\* const info: BucketFileInfo = { uri: response.uri, ... }
BucketFileInfo(options) == [uri |-> options.path]

\* the body of an ok response
Blob(type) == [type |-> type]

\* the options of a direct call, as in the hook's example
PhotoOptions ==
    [bucketId |-> Num(123), folderId |-> Num(456),
     path |-> Str(<<"/images/photo", ".", "jpg">>), expiryInMinutes |-> 60]

\* the message of whatever was thrown
ErrorMessageOfAny(err, fallback) == err.message

\* err instanceof Error ? err.message : fallback
ErrorMessage(err, fallback) ==
    IF err.isError THEN err.message ELSE Str(fallback)

FreeCallIds == (1..MaxCalls) \ {c.id : c \in calls}

\* a call that has run up to its first await
NewCall(id, fn, document, options) ==
    [id |-> id, fn |-> fn, stage |-> "uri", doc |-> document,
     options |-> options]

\* a call moves on to its next await
Await(c, stage) == calls' = (calls \ {c}) \cup {[c EXCEPT !.stage = stage]}

\* the promise of a call resolves with a value
Returned(c, value) ==
    [fn |-> c.fn, doc |-> c.doc, rejected |-> FALSE, value |-> value]

\* finally { setLoading(false) }, and the promise resolves
Finally(c, value) ==
    /\ loading' = SetState(loading, FALSE)
    /\ calls' = calls \ {c}
    /\ settled' = Returned(c, value)

\* getReadUri up to its await
getReadUri(options) ==
    /\ FreeCallIds # {}
    /\ loading' = TRUE
    /\ error' = Null
    /\ calls' = calls \cup
         {NewCall(CHOOSE i \in FreeCallIds : \A j \in FreeCallIds : i <= j,
                  "getReadUri", "none", options)}
    /\ settled' = NoCall
    /\ UNCHANGED <<fileInfo, fileContent>>

\* fetchFileContent up to its first await
fetchFileContent(options) ==
    /\ FreeCallIds # {}
    /\ loading' = TRUE
    /\ error' = Null
    /\ calls' = calls \cup
         {NewCall(CHOOSE i \in FreeCallIds : \A j \in FreeCallIds : i <= j,
                  "fetchFileContent", "none", options)}
    /\ settled' = NoCall
    /\ UNCHANGED <<fileInfo, fileContent>>

\* the catch block of getReadUri
getReadUriCatch(c, err) ==
    /\ error' = SetState(error, ErrorMessage(err, <<"Failed to get file read URI">>))
    /\ fileInfo' = SetState(fileInfo, Null)
    /\ UNCHANGED fileContent
    /\ Finally(c, Null)

\* the catch block of fetchFileContent
fetchFileContentCatch(c, err) ==
    /\ error' = SetState(error, ErrorMessage(err, <<"Failed to fetch file content">>))
    /\ fileContent' = SetState(fileContent, Null)
    /\ Finally(c, Null)

\* reset
reset ==
    /\ fileInfo' = Null
    /\ fileContent' = Null
    /\ loading' = FALSE
    /\ error' = Null

pageFrame ==
    UNCHANGED <<hookVars, sdkVars, hostVars, pageVars, entityVars, fnVars,
                pdfVars>>

\* a response that is not ok: throw new Error(`Failed to fetch file: ...`)
NotOk == ThrownError(<<"Failed to fetch file: ", "Not Found">>)

\* uipath.buckets.getReadUri resolves
ReadUriResolves ==
    /\ \E c \in calls :
         /\ c.stage = "uri"
         /\ fileInfo' = SetState(fileInfo, BucketFileInfo(c.options))
         /\ IF c.fn = "getReadUri"
              THEN /\ Finally(c, BucketFileInfo(c.options))
                   /\ UNCHANGED <<fileContent, error>>
              ELSE /\ Await(c, "fetch")
                   /\ settled' = NoCall
                   /\ UNCHANGED <<fileContent, loading, error>>
    /\ UNCHANGED docVars
    /\ pageFrame
    /\ lastOp' = Op("readUriResolves", Undefined)

\* uipath.buckets.getReadUri throws
ReadUriThrows ==
    /\ \E c \in calls, err \in Throwables :
         /\ c.stage = "uri"
         /\ IF c.fn = "getReadUri"
              THEN getReadUriCatch(c, err)
              ELSE fetchFileContentCatch(c, err) /\ UNCHANGED fileInfo
    /\ UNCHANGED docVars
    /\ pageFrame
    /\ lastOp' = Op("readUriThrows", Undefined)

\* fetch resolves with an ok response
FetchResponds ==
    /\ \E c \in calls :
         /\ c.stage = "fetch"
         /\ Await(c, "blob")
    /\ settled' = NoCall
    /\ UNCHANGED <<fileInfo, fileContent, loading, error>>
    /\ UNCHANGED docVars
    /\ pageFrame
    /\ lastOp' = Op("fetchResponds", Undefined)

\* fetch resolves with a response that is not ok
FetchNotOk ==
    /\ \E c \in calls :
         /\ c.stage = "fetch"
         /\ fetchFileContentCatch(c, NotOk)
    /\ UNCHANGED <<fileInfo, docVars>>
    /\ pageFrame
    /\ lastOp' = Op("fetchNotOk", Undefined)

\* fetch throws
FetchThrows ==
    /\ \E c \in calls, err \in Throwables :
         /\ c.stage = "fetch"
         /\ fetchFileContentCatch(c, err)
    /\ UNCHANGED <<fileInfo, docVars>>
    /\ pageFrame
    /\ lastOp' = Op("fetchThrows", Undefined)

\* fetchResponse.blob() resolves
BlobResolves ==
    /\ \E c \in calls, type \in BlobTypes :
         /\ c.stage = "blob"
         /\ fileContent' = SetState(fileContent, Blob(type))
         /\ Finally(c, Blob(type))
    /\ UNCHANGED <<fileInfo, error, docVars>>
    /\ pageFrame
    /\ lastOp' = Op("blobResolves", Undefined)

\* fetchResponse.blob() throws
BlobThrows ==
    /\ \E c \in calls, err \in Throwables :
         /\ c.stage = "blob"
         /\ fetchFileContentCatch(c, err)
    /\ UNCHANGED <<fileInfo, docVars>>
    /\ pageFrame
    /\ lastOp' = Op("blobThrows", Undefined)

Settles ==
    \/ ReadUriResolves \/ ReadUriThrows
    \/ FetchResponds \/ FetchNotOk \/ FetchThrows
    \/ BlobResolves \/ BlobThrows

\* A component calls the functions useBucketFile returns.
CallGetReadUri ==
    /\ getReadUri(PhotoOptions)
    /\ UNCHANGED docVars
    /\ pageFrame
    /\ lastOp' = Op("getReadUri", Undefined)

CallFetchFileContent ==
    /\ fetchFileContent(PhotoOptions)
    /\ UNCHANGED docVars
    /\ pageFrame
    /\ lastOp' = Op("fetchFileContent", Undefined)

CallReset ==
    /\ reset
    /\ UNCHANGED calls
    /\ settled' = NoCall
    /\ UNCHANGED docVars
    /\ pageFrame
    /\ lastOp' = Op("reset", Undefined)

NextBucket == CallGetReadUri \/ CallFetchFileContent \/ CallReset \/ Settles

SpecBucket == Init /\ [][NextBucket]_vars

----------------------------------------------------------------------------
(* useEntityRecords *)

\* how many requests of the hook are in flight at once
MaxEntityCalls == 1

\* the records of an entity
Records(name) == <<[entity |-> name]>>

----------------------------------------------------------------------------
(* ActionPage with its documents and records.  A step is a handler, the    *)
(* render after it and the effects of that render.                         *)

\* how many object URLs the page creates in a behaviour
MaxUrls == 2

\* URL.createObjectURL(blob): a URL no earlier call returned
ObjectUrl(n) == [kind |-> "string", num |-> n, str |-> <<"blob:">>]

\* the dependency list of the cleanup effect
UrlDeps(d) == <<d["path1"].url, d["path2"].url, d["path3"].url>>

\* the URLs the cleanup function revokes: if (doc1.url) ...
UrlsHeld(d) == {d[p].url : p \in {q \in PathKeys : Truthy(d[q].url)}}

\* an effect without a dependency list runs after every render
EffectRunsEveryRender(mounting, before, after) == TRUE

\* an effect runs on mount and when a dependency changed
EffectRuns(mounting, before, after) == mounting \/ before # after

\* the requests the document effect issues in this render
DocumentRequests(mounting) ==
    IF ~unmounted /\ EffectRuns(mounting, docDeps, docDeps')
      THEN DocumentFetches(hasActionCenterData', formData')
      ELSE {}

\* The document effect of the render after a handler that left calls1,
\* docs1, loading1 and error1: fetchDocument for every truthy path, each up
\* to the first await of fetchFileContent.
DocumentEffect(mounting, calls1, docs1, loading1, error1) ==
    LET fetches == DocumentRequests(mounting)
        free == (1..MaxCalls) \ {c.id : c \in calls1}
    IN  /\ Cardinality(fetches) <= Cardinality(free)
        /\ LET id == CHOOSE f \in [fetches -> free] :
                        \A a, b \in fetches : a # b => f[a] # f[b]
           IN  calls' = calls1 \cup
                 {NewCall(id[r], "fetchFileContent", r.doc,
                          [bucketId |-> r.bucketId, folderId |-> r.folderId,
                           path |-> r.path,
                           expiryInMinutes |-> r.expiryInMinutes]) :
                    r \in fetches}
        /\ docs' = [p \in PathKeys |->
                      IF p \in {r.doc : r \in fetches}
                        THEN [docs1[p] EXCEPT !.loading = TRUE, !.error = Null]
                        ELSE docs1[p]]
        /\ loading' = IF fetches # {} THEN TRUE ELSE loading1
        /\ error' = IF fetches # {} THEN Null ELSE error1

\* the requests the entity effect issues in this render
EntityRequests(mounting) ==
    IF ~unmounted /\ EffectRuns(mounting, entDeps, entDeps')
      THEN EntityFetches(hasActionCenterData', formData')
      ELSE {}

\* The entity effect of the render after a handler that left inFlight1,
\* loading1 and error1: fetchByName up to its await.
EntityEffect(mounting, inFlight1, loading1, error1) ==
    LET fetches == EntityRequests(mounting)
        free == (1..MaxEntityCalls) \ {r.id : r \in inFlight1}
    IN  /\ Cardinality(fetches) <= Cardinality(free)
        /\ entityInFlight' = inFlight1 \cup
             {[id |-> CHOOSE i \in free : \A j \in free : i <= j,
               entityName |-> r.entityName] : r \in fetches}
        /\ entityLoading' = IF fetches # {} THEN TRUE ELSE loading1
        /\ entityError' = IF fetches # {} THEN Null ELSE error1

\* The cleanup effect of this render: when a URL changed, the cleanup
\* registered last runs, and the one of this render is registered.
CleanupEffect ==
    IF ~unmounted /\ EffectRuns(FALSE, UrlDeps(docs), UrlDeps(docs'))
      THEN /\ revokedUrls' = revokedUrls \cup cleanupUrls
           /\ cleanupUrls' = UrlsHeld(docs')
      ELSE UNCHANGED <<revokedUrls, cleanupUrls>>

\* the render after a handler that changed no state of useActionContext
Rerender ==
    /\ UNCHANGED <<hookVars, sdkVars, hostVars, mountRuns, unmounted, fnVars,
                   pdfVars>>
    /\ Render(FALSE)

\* setDoc({ url, contentType, loading: false, error: null })
LoadedDocument(url, path, blob) ==
    [url |-> url, contentType |-> getContentType(path.str, blob.type),
     loading |-> FALSE, error |-> Null]

\* the document replaced by an empty one that holds the error
FailedDocumentCleared(prev) ==
    [NoDocument EXCEPT !.error = Str(<<"Failed to fetch document">>)]

\* setDoc(prev => ({ ...prev, loading: false, error: 'Failed to fetch document' }))
FailedDocument(prev) ==
    [prev EXCEPT !.loading = FALSE,
                 !.error = Str(<<"Failed to fetch document">>)]

\* the content type the bucket serves a file with
FileType(path) ==
    IF path = HostMoved.path1 THEN <<"image/", "jpeg">> ELSE Pdf

\* the messages of a task with two documents and of one with one document
PageMessages ==
    {LoadApp(HostInvoice, FALSE, Token1), LoadApp(HostReviewed, FALSE, Token1)}

\* The host posts a message; the requests the effects issue are in flight
\* when the step ends.
PageMessage ==
    /\ ~unmounted
    /\ HandleMessage(PageMessages)
    /\ DocumentEffect(FALSE, calls, docs, loading, error)
    /\ EntityEffect(FALSE, entityInFlight, entityLoading, entityError)
    /\ CleanupEffect
    /\ settled' = NoCall
    /\ UNCHANGED <<fileInfo, fileContent, createdUrls, unmounted, records,
                   fnVars, pdfVars>>
    /\ lastOp' = Op("message", Undefined)

\* A call of fetchFileContent that fetchDocument awaits, followed from its
\* first await to its end: it ends with a blob, and fetchDocument goes on.
DocumentResolves ==
    /\ \E c \in calls : \E type \in {FileType(c.options.path)} :
         /\ c.doc # "none"
         /\ Cardinality(createdUrls) < MaxUrls
         /\ Rerender
         /\ LET url == ObjectUrl(Cardinality(createdUrls) + 1)
                docs1 == SetState(docs, [docs EXCEPT ![c.doc] =
                           LoadedDocument(url, c.options.path, Blob(type))])
            IN  /\ createdUrls' = createdUrls \cup {url}
                /\ DocumentEffect(FALSE, calls \ {c}, docs1,
                                  SetState(loading, FALSE), error)
         /\ fileInfo' = SetState(fileInfo, BucketFileInfo(c.options))
         /\ fileContent' = SetState(fileContent, Blob(type))
         /\ settled' = Returned(c, Blob(type))
    /\ EntityEffect(FALSE, entityInFlight, entityLoading, entityError)
    /\ CleanupEffect
    /\ UNCHANGED records
    /\ lastOp' = Op("documentResolves", Undefined)

\* The call ends in its catch block on a response that is not ok, and
\* fetchDocument goes on with null.
DocumentFails ==
    /\ \E c \in calls :
         /\ c.doc # "none"
         /\ Rerender
         /\ DocumentEffect(FALSE, calls \ {c},
              SetState(docs, [docs EXCEPT ![c.doc] = FailedDocument(@)]),
              SetState(loading, FALSE),
              SetState(error,
                ErrorMessage(NotOk, <<"Failed to fetch file content">>)))
         /\ fileInfo' = SetState(fileInfo, BucketFileInfo(c.options))
         /\ fileContent' = SetState(fileContent, Null)
         /\ settled' = Returned(c, Null)
    /\ EntityEffect(FALSE, entityInFlight, entityLoading, entityError)
    /\ CleanupEffect
    /\ UNCHANGED <<createdUrls, records>>
    /\ lastOp' = Op("documentFails", Undefined)

\* The entity service answers a request of fetchByName.
EntityResolves ==
    /\ \E r \in entityInFlight :
         /\ Rerender
         /\ EntityEffect(FALSE, entityInFlight \ {r},
                         SetState(entityLoading, FALSE), entityError)
         /\ records' = SetState(records, Records(r.entityName))
    /\ DocumentEffect(FALSE, calls, docs, loading, error)
    /\ CleanupEffect
    /\ settled' = NoCall
    /\ UNCHANGED <<fileInfo, fileContent, createdUrls>>
    /\ lastOp' = Op("entityResolves", Undefined)

\* The entity service fails a request of fetchByName.
EntityThrows ==
    /\ \E r \in entityInFlight :
         /\ Rerender
         /\ EntityEffect(FALSE, entityInFlight \ {r},
                         SetState(entityLoading, FALSE),
                         SetState(entityError, Str(<<"Failed to fetch records">>)))
    /\ DocumentEffect(FALSE, calls, docs, loading, error)
    /\ CleanupEffect
    /\ settled' = NoCall
    /\ UNCHANGED <<fileInfo, fileContent, createdUrls, records>>
    /\ lastOp' = Op("entityThrows", Undefined)

\* The page is taken off the screen: the cleanup registered last runs.
Unmount ==
    /\ Mounted
    /\ ~unmounted
    /\ unmounted' = TRUE
    /\ revokedUrls' = revokedUrls \cup cleanupUrls
    /\ cleanupUrls' = {}
    /\ settled' = NoCall
    /\ UNCHANGED <<hookVars, sdkVars, hostVars, pageVars, entityVars, fnVars,
                   pdfVars>>
    /\ UNCHANGED <<fileInfo, fileContent, loading, error, calls, docs,
                   createdUrls>>
    /\ lastOp' = Op("unmount", Undefined)

NextDocs ==
    \/ Mount \/ PageMessage
    \/ DocumentResolves \/ DocumentFails
    \/ EntityResolves \/ EntityThrows

\* the page for as long as it is on the screen
SpecDocs == Init /\ [][NextDocs]_vars

\* the messages of a task whose one document is replaced by another
MovedMessages ==
    {LoadApp(HostReviewed, FALSE, Token1), LoadApp(HostMoved, FALSE, Token1)}

\* The host posts the task, or the task with its document replaced.
MovedMessage ==
    /\ ~unmounted
    /\ HandleMessage(MovedMessages)
    /\ DocumentEffect(FALSE, calls, docs, loading, error)
    /\ EntityEffect(FALSE, entityInFlight, entityLoading, entityError)
    /\ CleanupEffect
    /\ settled' = NoCall
    /\ UNCHANGED <<fileInfo, fileContent, createdUrls, unmounted, records,
                   fnVars, pdfVars>>
    /\ lastOp' = Op("message", Undefined)

NextMoved ==
    \/ Mount \/ MovedMessage
    \/ DocumentResolves \/ DocumentFails
    \/ EntityResolves \/ EntityThrows

\* the page while the host replaces the document of the task
SpecMoved == Init /\ [][NextMoved]_vars

NextUnmount == NextDocs \/ Unmount

\* the page up to and after its unmount
SpecUnmount == Init /\ [][NextUnmount]_vars

----------------------------------------------------------------------------
(* types/action-schema and components/action: the form of a schema *)

\* how many fields a schema declares
MaxSchemaFields == 3

\* enum VBDataType
IntegerTypes ==
    {"System.Int16", "System.Int32", "System.Int64",
     "System.UInt16", "System.UInt32", "System.UInt64"}
FloatTypes == {"System.Double", "System.Single", "System.Decimal"}
VBDataType ==
    IntegerTypes \cup FloatTypes \cup
    {"System.String", "System.Boolean", "System.DateOnly", "System.Guid",
     "System.Object", "System.Data.DataTable",
     "UiPath.Platform.ResourceHandling.IResource"}

\* Decimal left out of the switch
getInputTypeNoDecimal(vbType) ==
    CASE vbType \in IntegerTypes -> "number"
      [] vbType \in {"System.Double", "System.Single"} -> "number"
      [] vbType = "System.Boolean" -> "checkbox"
      [] vbType = "System.DateOnly" -> "date"
      [] OTHER -> "text"

\* getInputType(vbType)
getInputType(vbType) ==
    CASE vbType \in IntegerTypes -> "number"
      [] vbType \in FloatTypes -> "number"
      [] vbType = "System.Boolean" -> "checkbox"
      [] vbType = "System.DateOnly" -> "date"
      [] OTHER -> "text"

\* name.toLowerCase().includes(word), the word one symbol
Includes(s, word) == \E i \in 1..Len(s) : s[i] = word

\* const isLongText = type === VBDataType.String && ( ... )
isLongText(type, name) ==
    /\ type = "System.String"
    /\ \E word \in {"comment", "description", "note", "reason", "message"} :
         Includes(ToLowerCase(name), word)

\* what ActionFormField returns: the control, the type attribute of an
\* <Input>, whether the control is disabled, and the field its onChange
\* reports a change of
Control(control, inputType, name, readOnly) ==
    [control |-> control, type |-> inputType, disabled |-> readOnly,
     onChange |-> name]

\* ActionFormField({ name, type, readOnly, onChange })
ActionFormField(name, type, readOnly) ==
    LET inputType == getInputType(type)
    IN  IF type = "System.Boolean"
          THEN Control("Checkbox", "", name, readOnly)
        ELSE IF isLongText(type, name)
          THEN Control("Textarea", "", name, readOnly)
        ELSE IF inputType = "number"
          THEN Control("Input", "number", name, readOnly)
        ELSE IF type = "System.DateOnly"
          THEN Control("Input", "date", name, readOnly)
        ELSE Control("Input", inputType, name, readOnly)

\* ReadOnlyField({ label, value }): text, no control and no handler
ReadOnlyField(name) ==
    [control |-> "none", type |-> "", disabled |-> TRUE, onChange |-> <<>>]

\* an input of the schema rendered as the other fields are
InputFieldAsControl(field, readOnly) ==
    ActionFormField(field.name, field.type, readOnly)

\* schema.inputs.map((field) => <ReadOnlyField ... />)
InputField(field, readOnly) == ReadOnlyField(field.name)

\* schema.inOuts.map / schema.outputs.map((field) => <ActionFormField ... />)
EditableField(field, readOnly) ==
    ActionFormField(field.name, field.type, readOnly)

\* ActionFormRenderer({ schema, readOnly }): the fields by name, the three
\* sections in the order inputs, inOuts, outputs
ActionFormRenderer(schema, readOnly) ==
    [name \in {f.name : f \in schema.inputs \cup schema.inOuts \cup schema.outputs}
       |-> LET field == CHOOSE f \in
                          schema.inputs \cup schema.inOuts \cup schema.outputs :
                          f.name = name
           IN  IF field \in schema.inputs
                 THEN InputField(field, readOnly)
                 ELSE EditableField(field, readOnly)]

\* CompactActionForm({ schema, readOnly }): all fields in one list, each
\* tagged with the section it came from
CompactActionForm(schema, readOnly) ==
    LET allFields ==
          {[field |-> f, fieldType |-> "input"] : f \in schema.inputs}
          \cup {[field |-> f, fieldType |-> "inOut"] : f \in schema.inOuts}
          \cup {[field |-> f, fieldType |-> "output"] : f \in schema.outputs}
    IN  [name \in {t.field.name : t \in allFields}
           |-> LET tagged == CHOOSE t \in allFields : t.field.name = name
               IN  IF tagged.fieldType = "input"
                     THEN InputField(tagged.field, readOnly)
                     ELSE EditableField(tagged.field, readOnly)]

\* the Load More button enabled whatever loading is
LoadMoreButtonAlwaysEnabled(isLoading) == [disabled |-> FALSE]

\* <Button onClick={onLoadMore} disabled={loading}>
LoadMoreButton(isLoading) == [disabled |-> isLoading]

\* EntityRecordsTable({ records, loading, error, hasNextPage, onLoadMore }):
\* which of its parts are rendered, and the Load More buttons
EntityRecordsTable(tableRecords, isLoading, tableError, hasNextPage) ==
    [skeleton |-> isLoading /\ Len(tableRecords) = 0,
     alert |-> Truthy(tableError),
     empty |-> ~isLoading /\ ~Truthy(tableError) /\ Len(tableRecords) = 0,
     table |-> Len(tableRecords) > 0,
     buttons |-> IF Len(tableRecords) > 0 /\ hasNextPage
                   THEN {LoadMoreButton(isLoading)} ELSE {}]

----------------------------------------------------------------------------
(* Functions and components taken alone: the arguments are drawn at the   *)
(* start and the function is applied to them.                             *)

ContentPaths ==
    {<<"/in/invoice", ".", "pdf">>, <<"/in/scan">>, <<"photo", ".", "JPG">>,
     <<"notes", ".", "txt">>, <<"backup", ".", "tar", ".", "gz">>,
     <<"draft", ".">>, <<>>}
MimeTypes ==
    {<<>>, Pdf, <<"image/", "png">>, <<"text/", "plain">>, OctetStream,
     <<"application/json">>}

FieldNames ==
    {<<"amount">>, <<"reviewer", "Comment", "s">>, <<"Note", "s">>,
     <<"description">>, <<"reject", "Reason">>, <<"is", "Approved">>}
FieldTypes == VBDataType \cup {"Custom.Invoice"}

\* the schemas with MaxSchemaFields fields at most, every name declared once
FieldNamePool == <<"vendor", "total", "approved", "dueDate">>
SchemaFieldNames ==
    {<<FieldNamePool[i]>> : i \in 1..MaxSchemaFields}
SchemaField(name, type) == [name |-> name, type |-> type]
Schemas ==
    {[inputs |-> {SchemaField(n, "System.String") : n \in {m \in SchemaFieldNames : section[m] = "input"}},
      inOuts |-> {SchemaField(n, "System.Int32") : n \in {m \in SchemaFieldNames : section[m] = "inOut"}},
      outputs |-> {SchemaField(n, "System.Boolean") : n \in {m \in SchemaFieldNames : section[m] = "output"}}] :
       section \in [SchemaFieldNames -> {"input", "inOut", "output", "absent"}]}

\* the props of the table: up to two records, with and without an error
TableProps ==
    {[fn |-> "EntityRecordsTable", records |-> r, loading |-> l, error |-> e,
      hasNextPage |-> h] :
       r \in {<<>>, <<[id |-> "r1", vendor |-> "Acme"]>>,
              <<[id |-> "r1", vendor |-> "Acme"],
                [id |-> "r2", vendor |-> "Globex"]>>},
       l \in BOOLEAN, h \in BOOLEAN,
       e \in {Null, Str(<<"Failed to fetch records">>)}}

AllProps ==
    TableProps \cup
    {[fn |-> "getContentType", path |-> path, mimeType |-> mimeType] :
       path \in ContentPaths, mimeType \in MimeTypes}
    \cup {[fn |-> "ActionFormField", name |-> name, type |-> type,
           readOnly |-> readOnly] :
            name \in FieldNames, type \in FieldTypes, readOnly \in BOOLEAN}
    \cup {[fn |-> form, schema |-> schema, readOnly |-> readOnly] :
            form \in {"ActionFormRenderer", "CompactActionForm"},
            schema \in Schemas, readOnly \in BOOLEAN}

InitFn ==
    /\ Idle
    /\ props \in AllProps
    /\ rendered = NotRendered
    /\ fieldChanges = {}

fnFrame ==
    UNCHANGED <<hookVars, sdkVars, hostVars, pageVars, bucketFileVars, docVars,
                entityVars, pdfVars, props>>

CallGetContentType ==
    /\ props.fn = "getContentType"
    /\ rendered = NotRendered
    /\ rendered' = [fn |-> props.fn,
                    value |-> getContentType(props.path, props.mimeType)]
    /\ UNCHANGED fieldChanges
    /\ fnFrame
    /\ lastOp' = Op("getContentType", Undefined)

RenderField ==
    /\ props.fn = "ActionFormField"
    /\ rendered = NotRendered
    /\ rendered' = [fn |-> props.fn,
                    inputType |-> getInputType(props.type),
                    value |-> ActionFormField(props.name, props.type,
                                              props.readOnly)]
    /\ UNCHANGED fieldChanges
    /\ fnFrame
    /\ lastOp' = Op("ActionFormField", Undefined)

RenderForm ==
    /\ props.fn \in {"ActionFormRenderer", "CompactActionForm"}
    /\ rendered = NotRendered
    /\ rendered' = [fn |-> props.fn,
                    value |-> IF props.fn = "ActionFormRenderer"
                                THEN ActionFormRenderer(props.schema, props.readOnly)
                                ELSE CompactActionForm(props.schema, props.readOnly)]
    /\ UNCHANGED fieldChanges
    /\ fnFrame
    /\ lastOp' = Op("render", Undefined)

\* The user changes a control of the rendered form that is not disabled, and
\* its onChange calls onFieldChange(field.name, value).
ChangeControl ==
    /\ rendered.fn \in {"ActionFormRenderer", "CompactActionForm"}
    /\ \E name \in DOMAIN rendered.value :
         /\ rendered.value[name].control # "none"
         /\ ~rendered.value[name].disabled
         /\ fieldChanges' = fieldChanges \cup {rendered.value[name].onChange}
    /\ UNCHANGED rendered
    /\ fnFrame
    /\ lastOp' = Op("change", Undefined)

RenderTable ==
    /\ props.fn = "EntityRecordsTable"
    /\ rendered = NotRendered
    /\ rendered' = [fn |-> props.fn,
                    value |-> EntityRecordsTable(props.records, props.loading,
                                                 props.error, props.hasNextPage)]
    /\ UNCHANGED fieldChanges
    /\ fnFrame
    /\ lastOp' = Op("render", Undefined)

\* The user clicks a Load More button that is rendered and not disabled,
\* and its onClick calls onLoadMore.
ClickLoadMore ==
    /\ rendered.fn = "EntityRecordsTable"
    /\ \E button \in rendered.value.buttons : ~button.disabled
    /\ UNCHANGED <<rendered, fieldChanges>>
    /\ fnFrame
    /\ lastOp' = Op("onLoadMore", Undefined)

NextFn ==
    \/ CallGetContentType \/ RenderField \/ RenderForm \/ ChangeControl
    \/ RenderTable \/ ClickLoadMore

SpecFn == InitFn /\ [][NextFn]_vars

----------------------------------------------------------------------------
(* components/action/PDFViewer *)

\* the most pages a document has
MaxPages == 3

\* the URL of a document, one that tells the document's page count
PdfFile(pages) == Str(<<"blob:pdf">> \o [i \in 1..pages |-> "/page"])
PagesOf(f) == Len(f.str) - 1
PdfFiles == {PdfFile(n) : n \in 1..MaxPages}

Max(a, b) == IF a >= b THEN a ELSE b
Min(a, b) == IF a <= b THEN a ELSE b

\* the last return of the component is reached: the controls and the
\* <Document> are rendered
DocumentMounted(f, err) == Truthy(f) /\ ~Truthy(err)

\* the page number kept across a load
onLoadSuccessKeepsPage(pages) ==
    /\ numPages' = pages
    /\ pageNumber' = pageNumber
    /\ pdfLoading' = FALSE
    /\ pdfError' = Null

\* onLoadSuccess({ numPages })
onLoadSuccess(pages) ==
    /\ numPages' = pages
    /\ pageNumber' = 1
    /\ pdfLoading' = FALSE
    /\ pdfError' = Null

\* onLoadError(err)
onLoadError(err) ==
    /\ pdfLoading' = FALSE
    /\ pdfError' = Str(err.message)
    /\ UNCHANGED <<numPages, pageNumber>>

\* setPageNumber(prev => Math.max(1, prev - 1))
goToPrevPage == pageNumber' = Max(1, pageNumber - 1)

\* setPageNumber(prev => Math.min(numPages, prev + 1))
goToNextPage == pageNumber' = Min(numPages, pageNumber + 1)

\* disabled={pageNumber <= 1 || loading}, disabled={pageNumber >= numPages || loading}
PrevDisabled == pageNumber <= 1 \/ pdfLoading
NextDisabled == pageNumber >= numPages \/ pdfLoading

pdfFrame ==
    UNCHANGED <<hookVars, sdkVars, hostVars, pageVars, bucketFileVars, docVars,
                entityVars, fnVars>>

\* The parent renders the viewer with another file prop. A mounted
\* <Document> starts loading the new file; no state of the viewer changes.
SetFile ==
    /\ \E f \in PdfFiles \cup {Null, Str(<<>>)} :
         /\ f # file
         /\ file' = f
         /\ pdfPending' = IF DocumentMounted(f, pdfError) THEN f ELSE Null
    /\ UNCHANGED <<numPages, pageNumber, pdfLoading, pdfError>>
    /\ pdfFrame
    /\ lastOp' = Op("file", Undefined)

LoadSucceeds ==
    /\ pdfPending # Null
    /\ onLoadSuccess(PagesOf(pdfPending))
    /\ pdfPending' = Null
    /\ UNCHANGED file
    /\ pdfFrame
    /\ lastOp' = Op("loadSuccess", Undefined)

LoadFails ==
    /\ pdfPending # Null
    /\ onLoadError(ThrownError(<<"Invalid PDF structure">>))
    /\ pdfPending' = Null
    /\ UNCHANGED file
    /\ pdfFrame
    /\ lastOp' = Op("loadError", Undefined)

\* A click on the previous button: a disabled button calls no handler.
ClickPrev ==
    /\ DocumentMounted(file, pdfError)
    /\ IF PrevDisabled THEN UNCHANGED pageNumber ELSE goToPrevPage
    /\ UNCHANGED <<file, numPages, pdfLoading, pdfError, pdfPending>>
    /\ pdfFrame
    /\ lastOp' = Op("prev", Undefined)

ClickNext ==
    /\ DocumentMounted(file, pdfError)
    /\ IF NextDisabled THEN UNCHANGED pageNumber ELSE goToNextPage
    /\ UNCHANGED <<file, numPages, pdfLoading, pdfError, pdfPending>>
    /\ pdfFrame
    /\ lastOp' = Op("next", Undefined)

NextPdf == SetFile \/ LoadSucceeds \/ LoadFails \/ ClickPrev \/ ClickNext

SpecPdf == Init /\ [][NextPdf]_vars

----------------------------------------------------------------------------
(* Properties *)

IsComplete(c) == c.call = "completeTask"
IsDataChanged(c) == c.call = "dataChanged"
IsReady(c) == c.call = "initializeInActionCenter"
IsRegister(c) == c.call = "getTaskDetailsFromActionCenter"

\* a host message with a data field has been handled
HostPopulated == initialDataRef # INITIAL_DATA

\* the step is a user's edit or click on the page
UserActs == lastOp'.op \in {"type", "click"}

\* C1: while hasActionCenterData is false, no request has been issued to the
\* file-storage service and none to the entity-record service.
C1_NoFetchBeforeHostMessage ==
    ~hasActionCenterData => (bucketCalls = {} /\ entityCalls = {})

\* C1 witness: the page has re-rendered in preview mode with a placeholder
\* bucketId and folderId that an ungated effect would fetch with.
C1_Witness ==
    /\ ~hasActionCenterData
    /\ lastOp.op = "type"
    /\ Truthy(formData.bucketId) /\ Truthy(formData.folderId)
    /\ Truthy(formData.path1) /\ Truthy(formData.entityName)

\* C2: the ready signal is sent at most once however often the mount effect
\* runs, and the host callback is registered, on the same client, before it.
C2_RegisterThenReadyOnce ==
    /\ Cardinality({i \in DOMAIN handshake : IsReady(handshake[i])}) <= 1
    /\ \A i \in DOMAIN handshake :
         IsReady(handshake[i]) =>
           \E j \in 1..(i - 1) :
             /\ IsRegister(handshake[j])
             /\ handshake[j].client = handshake[i].client

\* C2 witness: the mount effect has run twice and the ready signal is out.
C2_Witness ==
    /\ mountRuns >= 2
    /\ \E i \in DOMAIN handshake : IsReady(handshake[i])

\* C3: whenever hasActionCenterData is true the SDK has been initialized with
\* the host's credentials.
C3_FlagImpliesSdkInitialized == hasActionCenterData => sdkInitialized

\* C4: whenever hasActionCenterData is true, the fields of formData that are
\* not edited locally no longer hold the placeholder values, and no request
\* to the file-storage or entity service carries a placeholder value.
C4_FlagImpliesHostData ==
    /\ hasActionCenterData =>
         \A k \in InputKeys : formData[k] # INITIAL_DATA[k]
    /\ \A c \in bucketCalls :
         /\ c.bucketId # INITIAL_DATA.bucketId
         /\ c.folderId # INITIAL_DATA.folderId
    /\ \A c \in entityCalls : c.entityName # INITIAL_DATA.entityName

\* C5: once a host message has populated formData, no later host message
\* replaces formData: what the user has changed since keeps its value.
C5_PayloadTakenOnce ==
    [][(HostPopulated /\ formData # initialDataRef /\ lastOp'.op = "message")
         => formData' = formData]_vars

C7_DataChangedCarriesFormData ==
    lastOp.op \in {"type", "updateFormData", "resetForm"} =>
      /\ sent # <<>>
      /\ IsDataChanged(sent[Len(sent)])
      /\ sent[Len(sent)].data = formData

\* C7 witness: updateFormData changed one key of host data that has more.
C7_Witness ==
    /\ lastOp.op = "updateFormData"
    /\ HostPopulated
    /\ formData # initialDataRef
    /\ Truthy(formData.bucketId)

\* C8: once completeTask has been sent, no step sends another completeTask
\* or a dataChanged notification.
C8_OutcomeFinalizes == [][completed => sent' = <<>>]_vars

\* C9: while isReadOnly is true no user action changes formData, sends
\* dataChanged or invokes completeTask.
C9_ReadOnlyBlocksUser ==
    [][(isReadOnly /\ UserActs) =>
         (formData' = formData /\ sent' = <<>> /\ completed' = completed)]_vars

\* C9 witness: a read-only task whose remarks are filled in, so that only
\* isReadOnly keeps the outcome buttons away.
C9_Witness ==
    /\ isReadOnly
    /\ hasActionCenterData
    /\ OutcomeEnabled(formData)

\* C10: every completeTask sent from the page carries remarks that are a
\* string with at least one symbol that is not whitespace.
C10_CompletedWithRemarks ==
    \A i \in DOMAIN sent :
        IsComplete(sent[i]) =>
          LET remarks == sent[i].data.remarks IN
          /\ remarks.kind = "string"
          /\ \E j \in DOMAIN remarks.str : remarks.str[j] # " "

\* C10 witness: an outcome button was clicked.
C10_Witness ==
    /\ lastOp.op = "click"
    /\ \E i \in DOMAIN sent : IsComplete(sent[i])

\* C11: a call of getReadUri or fetchFileContent whose read-URI request
\* throws, whose HTTP fetch throws or whose response is not ok does not
\* reject: it resolves to null, error is a message, loading is false, and
\* fileInfo (getReadUri) or fileContent (fetchFileContent) is null.
C11_FailedCallResolvesNull ==
    /\ ~settled.rejected
    /\ lastOp.op \in {"readUriThrows", "fetchThrows", "fetchNotOk"} =>
         /\ settled.value = Null
         /\ error.kind = "string"
         /\ loading = FALSE
         /\ settled.fn = "getReadUri" => fileInfo = Null
         /\ settled.fn = "fetchFileContent" => fileContent = Null

\* a fetchFileContent ends on a response that is not ok, its read URI
\* stored, while a second call is still in flight
C11_Witness ==
    /\ lastOp.op = "fetchNotOk"
    /\ settled.fn = "fetchFileContent"
    /\ fileInfo # Null
    /\ calls # {}

\* C12: a failed fetch of one document changes the error and loading fields
\* of that document and nothing else of the page: the other documents, the
\* entity-record state, formData, taskData and hasActionCenterData stay as
\* they were.
C12_FailedFetchTouchesOwnDocument ==
    [][lastOp'.op = "documentFails" =>
         /\ \A p \in PathKeys :
              IF p = settled'.doc
                THEN /\ docs'[p].url = docs[p].url
                     /\ docs'[p].contentType = docs[p].contentType
                     /\ docs'[p].error # Null
                     /\ ~docs'[p].loading
                ELSE docs'[p] = docs[p]
         /\ UNCHANGED <<entityVars, formData, taskData, hasActionCenterData>>
      ]_vars

\* a document that was shown fails on its re-fetch, while another document
\* is shown and the records have arrived
C12_Witness ==
    /\ lastOp.op = "documentFails"
    /\ Truthy(docs[settled.doc].url)
    /\ \E q \in PathKeys \ {settled.doc} : Truthy(docs[q].url)
    /\ records # <<>>

\* a render issues a document request
IssuesDocumentRequest == {c \in calls' : c.doc # "none"} \ calls # {}

\* a render issues an entity request
IssuesEntityRequest == entityInFlight' \ entityInFlight # {}

\* C13: no fetch is retried: a step issues a document request only when
\* hasActionCenterData, bucketId, folderId or a path changes in it, and an
\* entity request only when hasActionCenterData or entityName changes in it;
\* the step in which a fetch fails issues none.
C13_NoRetry ==
    [][/\ IssuesDocumentRequest =>
            DocDeps(hasActionCenterData', formData')
              # DocDeps(hasActionCenterData, formData)
       /\ IssuesEntityRequest =>
            EntDeps(hasActionCenterData', formData')
              # EntDeps(hasActionCenterData, formData)
       /\ lastOp'.op \in {"documentFails", "entityThrows"} =>
            ~IssuesDocumentRequest /\ ~IssuesEntityRequest
      ]_vars

\* after a document fetch and the entity fetch have failed, a message of the
\* host that changes none of the inputs is handled, and nothing is in flight
C13_Witness ==
    /\ lastOp.op = "message"
    /\ \E p \in PathKeys : docs[p].error # Null /\ ~docs[p].loading
    /\ entityError # Null
    /\ calls = {}
    /\ entityInFlight = {}

\* C14: once the page is unmounted and no document fetch is in flight, every
\* object URL it created has been revoked.
C14_AllUrlsRevoked ==
    (unmounted /\ calls = {}) => createdUrls \subseteq revokedUrls

\* the keys a local edit writes: remarks (the field of the page) and the
\* keys of the partial updates
LocallyEdited == {"remarks"} \cup UNION {DOMAIN data : data \in Partials}

\* C15: for as long as no host message has been handled the hook is in the
\* preview state: hasActionCenterData is false, taskData is null, isReadOnly
\* is false, theme is light, language is 'en', formData is the initialData
\* option but for the keys edited locally, and the form takes edits and
\* outcomes.
C15_PreviewState ==
    ~hasActionCenterData =>
      /\ taskData = Null
      /\ ~isReadOnly
      /\ theme = Light
      /\ language = Str(<<"en">>)
      /\ initialDataRef = INITIAL_DATA
      /\ \A k \in Keys \ LocallyEdited : formData[k] = INITIAL_DATA[k]
      /\ Mounted =>
           /\ RemarksEnabled(isReadOnly)
           /\ OutcomesRendered(isReadOnly)
           /\ ENABLED TypeRemarks
           /\ ENABLED CallUpdateFormData
           /\ ENABLED CallCompleteTask

\* in preview mode remarks have been typed and an outcome has been sent
C15_Witness ==
    /\ ~hasActionCenterData
    /\ Mounted
    /\ formData.remarks = Str(<<"a">>)
    /\ completed

\* C17: after a host message that carries newToken has been handled, the
\* current SDK client authenticates with newToken, also when the message
\* carries full credentials and a token field of its own.
C17_TokenRefreshApplied ==
    (lastOp.op = "message" /\ Truthy(taskData.newToken)) =>
      clientSecret = taskData.newToken

\* a message with full credentials, a token and a different newToken has
\* been handled by a client created for it
C17_Witness ==
    /\ lastOp.op = "message"
    /\ HasCredentials(taskData)
    /\ Truthy(taskData.newToken)
    /\ taskData.token # taskData.newToken
    /\ uipathClient > 0

\* C16: with every schema name declared once, ActionFormRenderer and
\* CompactActionForm never call onFieldChange for a field of schema.inputs,
\* whatever readOnly is, and a field of schema.outputs or schema.inOuts has
\* an enabled control exactly when readOnly is false.
C16_InputsNeverChanged ==
    rendered.fn \in {"ActionFormRenderer", "CompactActionForm"} =>
      /\ \A f \in props.schema.inputs : f.name \notin fieldChanges
      /\ \A f \in props.schema.inOuts \cup props.schema.outputs :
           (/\ rendered.value[f.name].control # "none"
            /\ ~rendered.value[f.name].disabled) <=> ~props.readOnly

\* a form with an input, an inOut and an output, not read-only, in which the
\* user has changed the inOut and the output
C16_Witness ==
    /\ rendered.fn \in {"ActionFormRenderer", "CompactActionForm"}
    /\ props.schema.inputs # {}
    /\ ~props.readOnly
    /\ \E f \in props.schema.inOuts : f.name \in fieldChanges
    /\ \E f \in props.schema.outputs : f.name \in fieldChanges

\* C18: getContentType decides from the MIME type whenever one is supplied:
\* for every path and every non-empty MIME type the result is the same
\* whatever the path.
C18_MimeDecidesAlone ==
    (rendered.fn = "getContentType" /\ props.mimeType # <<>>) =>
      \A path \in ContentPaths :
        getContentType(path, props.mimeType) = rendered.value

C20_PageWithinDocument ==
    [][/\ numPages' >= 1 => pageNumber' \in 1..numPages'
       /\ lastOp'.op = "loadSuccess" => pageNumber' = 1
       /\ (lastOp'.op = "prev" /\ numPages >= 1) =>
            pageNumber' = IF pageNumber = 1 THEN 1 ELSE pageNumber - 1
       /\ (lastOp'.op = "next" /\ numPages >= 1) =>
            pageNumber' = IF pageNumber = numPages THEN numPages
                          ELSE pageNumber + 1]_vars

\* the last page of the longest document, reached by a next click, while
\* a shorter document is loading
C20_Witness ==
    /\ lastOp.op = "next"
    /\ numPages = MaxPages
    /\ pageNumber = numPages
    /\ pdfPending = PdfFile(1)

\* what the fetch of document p reads
DocumentInputs(flag, fd, p) == <<flag, fd.bucketId, fd.folderId, fd[p]>>

\* C21: a document is fetched only when its own inputs change
\* (hasActionCenterData, bucketId, folderId, its own path): a step that
\* leaves them equal starts no fetch of that document, so a change of
\* another document's path does not fetch it again.
C21_FetchedOnOwnInputsOnly ==
    [][\A p \in PathKeys :
         (\E c \in calls' \ calls : c.doc = p) =>
           DocumentInputs(hasActionCenterData', formData', p)
             # DocumentInputs(hasActionCenterData, formData, p)]_vars

\* C25: while the page is mounted, an object URL held in a document's state
\* has not been revoked.
C25_ShownUrlNotRevoked ==
    ~unmounted =>
      \A p \in PathKeys :
        Truthy(docs[p].url) => docs[p].url \notin revokedUrls

\* C22: resetForm sets formData to the baseline and sends the baseline
\* with dataChanged; the baseline is the initialData option until a host
\* message brings data and the data of the last such message afterwards;
\* resetForm changes nothing else, so a second call leaves the state of the
\* first.
C22_ResetRestoresBaseline ==
    [][/\ ~hasActionCenterData' => initialDataRef' = INITIAL_DATA
       /\ initialDataRef' =
            IF lastOp'.op = "message" /\ HasData(taskData')
              THEN taskData'.data ELSE initialDataRef
       /\ lastOp'.op = "resetForm" =>
            /\ formData' = initialDataRef
            /\ Len(sent') = 1
            /\ IsDataChanged(sent'[1])
            /\ sent'[1].data = initialDataRef
            /\ UNCHANGED <<taskData, theme, language, hasActionCenterData,
                           initialDataRef, isInitializedRef, sdkVars,
                           handshake, completed>>]_vars

\* resetForm after a task's data was edited and a later message brought no
\* data: the form is back at the task's data
C22_Witness ==
    /\ lastOp.op = "resetForm"
    /\ hasActionCenterData
    /\ ~HasData(taskData)
    /\ formData = HostInvoice
    /\ completeTaskFormData = HostInvoice

\* the mount effect has run and the ready signal did not go out: one of
\* its two calls threw
MountThrew ==
    /\ mountRuns > 0
    /\ \A i \in 1..Len(handshake) : ~IsReady(handshake[i])

\* the state of the hook in preview
PreviewDefaults ==
    /\ taskData = Null
    /\ ~hasActionCenterData
    /\ theme = Light
    /\ language = Str(<<"en">>)
    /\ ~isReadOnly
    /\ initialDataRef = INITIAL_DATA

\* C23: when registering the host callback or sending the ready signal
\* throws during mount, the exception stays in the hook: the mount step
\* leaves the hook at its preview defaults with the initial data, no later
\* step attempts the handshake again, and an edit still updates formData
\* (the field typed into, and no other).
C23_MountFailureIsPreview ==
    [][/\ (lastOp'.op = "mount" /\ MountThrew') =>
            PreviewDefaults' /\ formData' = INITIAL_DATA
       /\ (MountThrew' /\ ~Registered') => PreviewDefaults'
       /\ MountThrew => handshake' = handshake
       /\ (MountThrew /\ lastOp'.op = "type") =>
            /\ formData'.remarks # formData.remarks
            /\ \A k \in Keys \ {"remarks"} : formData'[k] = formData[k]]_vars

\* registering threw, the effect ran a second time without a handshake,
\* and the user has typed remarks into the preview form
C23_Witness ==
    /\ MountThrew
    /\ handshake = <<>>
    /\ mountRuns = MaxMountRuns
    /\ lastOp.op = "type"
    /\ formData = [INITIAL_DATA EXCEPT !.remarks = Str(<<"a">>)]

\* C29: dataChanged and completeTask are always sent through the client on
\* which the host callback was registered and the ready signal was sent at
\* mount, also after host messages with credentials.
C29_SentThroughHandshakeClient ==
    \A i \in 1..Len(sent), k \in 1..Len(handshake) :
      sent[i].client = handshake[k].client

\* C24: EntityRecordsTable calls onLoadMore only in a state where
\* hasNextPage is true, at least one record is shown and loading is false,
\* so not while the fetch that loading stands for is in flight.
C24_LoadMoreOnlyWhenIdle ==
    lastOp.op = "onLoadMore" =>
      /\ props.hasNextPage
      /\ Len(props.records) > 0
      /\ ~props.loading

\* Load More clicked in a table that shows records and an error
C24_Witness ==
    /\ lastOp.op = "onLoadMore"
    /\ rendered.value.table
    /\ rendered.value.alert

\* C26: when a document's inputs change while an earlier fetch of it is in
\* flight, the document state after all fetches have settled belongs to
\* the latest inputs: a loaded document is the file of the current path.
C26_LatestInputsWin ==
    calls = {} =>
      \A p \in PathKeys :
        (/\ hasActionCenterData
         /\ Truthy(formData[p])
         /\ Truthy(docs[p].url)
         /\ docs[p].error = Null) =>
          docs[p].contentType =
            getContentType(formData[p].str, FileType(formData[p]))

\* C27: useBucketFile.loading is true whenever at least one getReadUri or
\* fetchFileContent call of the hook instance is in flight.
C27_LoadingWhileInFlight == calls # {} => loading

\* the state reset leaves
BucketFileCleared ==
    /\ fileInfo = Null
    /\ fileContent = Null
    /\ error = Null
    /\ ~loading

\* C28: reset leaves fileInfo, fileContent and error null and loading
\* false, and they stay so until the next getReadUri or fetchFileContent
\* call is made, whatever call was in flight when reset ran.
C28_ResetStaysCleared ==
    [][/\ lastOp'.op = "reset" => BucketFileCleared'
       /\ (BucketFileCleared
           /\ lastOp'.op \notin {"getReadUri", "fetchFileContent"}) =>
            BucketFileCleared']_vars

\* C30: PDFViewer recovers from a load error: once onLoadError has put it
\* into the error view, a change of the file prop to another file makes
\* that file load.
C30_FileChangeLoadsAfterError ==
    [][(Truthy(pdfError) /\ lastOp'.op = "file" /\ Truthy(file')) =>
         pdfPending' = file']_vars

====
